---- MODULE Spec2Model ----
(***************************************************************************)
(* Field indices of datacore (src/index/storage/fields.ts).                *)
(*                                                                         *)
(* One FieldIndex instance is modelled; its implementation class (`kind`)  *)
(* is selected when the instance is constructed and dispatches every call. *)
(* A JavaScript Set<string> is modelled as a duplicate-free sequence in    *)
(* insertion order; the sorted BTree<Literal, Set<string>> as a sequence   *)
(* of entries [key, set] kept sorted by the comparator.                    *)
(***************************************************************************)
EXTENDS Integers, Sequences, FiniteSets, TLC

\* ------------------------------------------------------------------ bounds
MaxValue == 2
MaxCalls == 4

Ids == {"p1", "p2", "p3"}
Values == 1..MaxValue
Kinds == {"Everything", "Id", "Set", "BTree"}

VARIABLES
    kind,        \* implementation class of the instance
    present,     \* SetFieldIndex.present / BTreeFieldIndex.present
    values,      \* BTreeFieldIndex.values
    docs,        \* document registry behind the all()/lookup() closures
    \* ---- history of the calls made on the instance
    nCalls,      \* number of add/delete calls so far
    \* ---- (the next five are kept for the indices that track ids: Set, BTree)
    addCount,    \* per id: number of add calls
    delCount,    \* per id: number of delete calls
    lastAdd,     \* per id: value of the latest add not followed by a delete of the id, else 0
    lastPair,    \* per (id, value): "none", "add" or "delete", the latest call on the pair
    protocolOK,  \* every call so far followed the lifecycle protocol
    lastCall,    \* the latest call <<op, id, value>>, <<>> before the first
    prevOp,      \* op of the call before it when that was on the same (id, value), else "none"
    firstAdds,   \* per value: the ids recorded under it, by their first add since their last delete
    \* ---- the index with its Set objects held by reference
    heap,        \* the Set objects: per reference, whether it is in use and its elements
    view,        \* the reference a caller kept from equals(value), and that value
    writers,     \* per writer: the step it is at, its call and its local `set`
    serialized   \* TRUE when every add and delete runs as one step

vars == <<kind, present, values, docs, nCalls, addCount, delCount, lastAdd,
          lastPair, protocolOK, lastCall, prevOp, firstAdds,
          heap, view, writers, serialized>>

byReference == <<heap, view, writers, serialized>>

\* ------------------------------------------------------ JavaScript Set<T>
SetOf(s) == {s[i] : i \in DOMAIN s}

SetHas(s, x) == x \in SetOf(s)

\* variant: adding a member moves it to the end
SetAdd_MovesToEnd(s, x) == Append(SelectSeq(s, LAMBDA e : e # x), x)

\* variant: add appends without looking for the element
SetAdd_Appends(s, x) == Append(s, x)

SetAdd(s, x) == IF SetHas(s, x) THEN s ELSE Append(s, x)

\* variant: an absent element is spliced at index -1, which drops the last one
SetDelete_SplicesAbsent(s, x) ==
    IF SetHas(s, x) THEN SelectSeq(s, LAMBDA e : e # x)
    ELSE SubSeq(s, 1, Len(s) - 1)

\* variant: delete loses the call
SetDelete_Ignored(s, x) == s

SetDelete(s, x) == SelectSeq(s, LAMBDA e : e # x)

\* variant: the array is kept as it is, duplicates included
NewSet_KeepsDuplicates(arr) == arr

\* new Set(array): first occurrence of every element, in array order
RECURSIVE NewSet(_)
NewSet(arr) ==
    IF arr = <<>> THEN <<>>
    ELSE LET front == NewSet(SubSeq(arr, 1, Len(arr) - 1))
         IN  SetAdd(front, arr[Len(arr)])

Reverse(s) == [i \in 1..Len(s) |-> s[Len(s) + 1 - i]]

\* position of x in a duplicate-free sequence, 0 if absent
IndexOf(s, x) == IF SetHas(s, x) THEN CHOOSE i \in DOMAIN s : s[i] = x ELSE 0

\* ------------------------------------------- Literals.compare on numbers
Compare(a, b) == IF a < b THEN -1 ELSE IF a > b THEN 1 ELSE 0

\* --------------------------------------- sorted-btree, as a sorted list
Keys(t) == {t[i].key : i \in DOMAIN t}

BTreeHas(t, k) == \E i \in DOMAIN t : Compare(t[i].key, k) = 0

\* get(key, defaultValue)
BTreeGet(t, k, default) ==
    IF BTreeHas(t, k)
    THEN t[CHOOSE i \in DOMAIN t : Compare(t[i].key, k) = 0].set
    ELSE default

\* setIfNotPresent(key, value)
BTreeSetIfNotPresent(t, k, val) ==
    IF BTreeHas(t, k) THEN t
    ELSE LET lower == SelectSeq(t, LAMBDA e : Compare(e.key, k) < 0)
             upper == SelectSeq(t, LAMBDA e : Compare(e.key, k) > 0)
         IN  lower \o <<[key |-> k, set |-> val]>> \o upper

\* delete(key)
BTreeDelete(t, k) == SelectSeq(t, LAMBDA e : Compare(e.key, k) # 0)

\* variant: every entry shares one Set object
BTreeMutate_SharedSet(t, k, newSet) ==
    [i \in DOMAIN t |-> [key |-> t[i].key, set |-> newSet]]

\* in-place mutation of the Set object stored under k
BTreeMutate(t, k, newSet) ==
    [i \in DOMAIN t |-> IF Compare(t[i].key, k) = 0
                        THEN [key |-> t[i].key, set |-> newSet]
                        ELSE t[i]]

\* variant: the reversed traversal walks forward
BTreeEntriesReversed_Forward(t) == t

\* entries() / entriesReversed()
BTreeEntries(t) == t
BTreeEntriesReversed(t) == Reverse(t)

\* ------------------------------------------------------- query results
Undefined == [defined |-> FALSE, set |-> <<>>]
Defined(s) == [defined |-> TRUE, set |-> s]

EMPTY_SET == <<>>

\* ------------------------------------------- Set objects by reference
Null == 0
Refs == 1..(MaxValue + 3)
Writers == {1, 2}

Unused == [used |-> FALSE, elems |-> <<>>]
NoView == [ref |-> Null, value |-> 0, kept |-> FALSE, seen |-> <<>>]
Idle == [pc |-> "idle", id |-> "p1", value |-> 0, set |-> Null]

\* ----------------------------------------------------------- histories
Recorded(id, v) == lastPair[id][v] = "add"

RecordedValues(id) == {v \in Values : Recorded(id, v)}

FollowsProtocol(op, id, v) ==
    IF op = "add" THEN RecordedValues(id) = {}
    ELSE RecordedValues(id) = {v}

SamePairOp(id, v) ==
    IF lastCall # <<>> /\ lastCall[2] = id /\ lastCall[3] = v THEN lastCall[1] ELSE "none"

History(op, id, v) ==
    /\ nCalls < MaxCalls
    /\ nCalls' = nCalls + 1
    /\ addCount' = IF op = "add" THEN [addCount EXCEPT ![id] = @ + 1] ELSE addCount
    /\ delCount' = IF op = "delete" THEN [delCount EXCEPT ![id] = @ + 1] ELSE delCount
    /\ lastAdd' = [lastAdd EXCEPT ![id] = IF op = "add" THEN v ELSE 0]
    /\ lastPair' = [lastPair EXCEPT ![id][v] = op]
    /\ protocolOK' = (protocolOK /\ FollowsProtocol(op, id, v))
    /\ lastCall' = <<op, id, v>>
    /\ prevOp' = SamePairOp(id, v)
    /\ firstAdds' = [firstAdds EXCEPT ![v] =
                        IF op = "delete" THEN SelectSeq(@, LAMBDA e : e # id)
                        ELSE IF Recorded(id, v) THEN @
                        ELSE Append(@, id)]
    /\ UNCHANGED byReference

\* a call on an index whose add and delete do nothing
Ignored(op, id, v) ==
    /\ nCalls < MaxCalls
    /\ nCalls' = nCalls + 1
    /\ lastCall' = <<op, id, v>>
    /\ prevOp' = SamePairOp(id, v)
    /\ UNCHANGED <<addCount, delCount, lastAdd, lastPair, protocolOK, firstAdds>>
    /\ UNCHANGED byReference

\* ------------------------------------------------------------------ Init
Init ==
    /\ kind \in Kinds
    /\ present = <<>>
    /\ values = <<>>
    /\ docs = {}
    /\ nCalls = 0
    /\ addCount = [id \in Ids |-> 0]
    /\ delCount = [id \in Ids |-> 0]
    /\ lastAdd = [id \in Ids |-> 0]
    /\ lastPair = [id \in Ids |-> [v \in Values |-> "none"]]
    /\ protocolOK = TRUE
    /\ lastCall = <<>>
    /\ prevOp = "none"
    /\ firstAdds = [v \in Values |-> <<>>]
    /\ heap = [r \in Refs |-> Unused]
    /\ view = NoView
    /\ writers = [w \in Writers |-> Idle]
    /\ serialized = TRUE

\* -------------------------------------------------- EverythingFieldIndex
\* variant: add registers the id in the enumerated population
EverythingFieldIndex_add_Registers(id, v) ==
    /\ kind = "Everything"
    /\ Ignored("add", id, v)
    /\ docs' = docs \cup {id}
    /\ UNCHANGED <<kind, present, values>>

EverythingFieldIndex_add(id, v) ==
    /\ kind = "Everything"
    /\ Ignored("add", id, v)
    /\ UNCHANGED <<kind, present, values, docs>>

EverythingFieldIndex_delete(id, v) ==
    /\ kind = "Everything"
    /\ Ignored("delete", id, v)
    /\ UNCHANGED <<kind, present, values, docs>>

EverythingFieldIndex_all == docs

EverythingFieldIndex_equals(lit) == Undefined
EverythingFieldIndex_ascending == Undefined
EverythingFieldIndex_descending == Undefined

\* ---------------------------------------------------------- IdFieldIndex
IdFieldIndex_add(id, v) ==
    /\ kind = "Id"
    /\ Ignored("add", id, v)
    /\ UNCHANGED <<kind, present, values, docs>>

IdFieldIndex_delete(id, v) ==
    /\ kind = "Id"
    /\ Ignored("delete", id, v)
    /\ UNCHANGED <<kind, present, values, docs>>

IdFieldIndex_all == docs

lookup(id) == id \in docs

\* a Literal is a pair <<type, payload>>
StringLiterals == {"string"} \X Ids
NumberLiterals == {"number"} \X Values

IsString(lit) == lit[1] = "string"

IdFieldIndex_equals(lit) ==
    IF ~IsString(lit) THEN Undefined
    ELSE IF lookup(lit[2]) THEN Defined(<<lit[2]>>)
    ELSE Undefined

\* Literals.compare on the id strings
IdRank == [id \in Ids |-> CASE id = "p1" -> 1 [] id = "p2" -> 2 [] id = "p3" -> 3]

CompareIds(a, b) == Compare(IdRank[a], IdRank[b])

\* Array.from(this.all()).sort((left, right) => Literals.compare(left, right))
RECURSIVE SortLeftRight(_)
SortLeftRight(S) ==
    IF S = {} THEN <<>>
    ELSE LET first == CHOOSE x \in S : \A y \in S : CompareIds(x, y) <= 0
         IN  <<first>> \o SortLeftRight(S \ {first})

\* variant: the descending sort compares (left, right) too
SortRightLeft_SameComparator(S) == SortLeftRight(S)

\* Array.from(this.all()).sort((left, right) => Literals.compare(right, left))
RECURSIVE SortRightLeft(_)
SortRightLeft(S) ==
    IF S = {} THEN <<>>
    ELSE LET first == CHOOSE x \in S : \A y \in S : CompareIds(y, x) <= 0
         IN  <<first>> \o SortRightLeft(S \ {first})

IdFieldIndex_ascending == Defined(NewSet(SortLeftRight(IdFieldIndex_all)))

IdFieldIndex_descending == Defined(NewSet(SortRightLeft(IdFieldIndex_all)))

\* ------------------------------------------------------ the registry
RegistryAdd(id) ==
    /\ kind \in {"Everything", "Id"}
    /\ id \notin docs
    /\ docs' = docs \cup {id}
    /\ UNCHANGED <<kind, present, values, nCalls, addCount, delCount, lastAdd,
                   lastPair, protocolOK, lastCall, prevOp, firstAdds>>
    /\ UNCHANGED byReference

RegistryRemove(id) ==
    /\ kind \in {"Everything", "Id"}
    /\ id \in docs
    /\ docs' = docs \ {id}
    /\ UNCHANGED <<kind, present, values, nCalls, addCount, delCount, lastAdd,
                   lastPair, protocolOK, lastCall, prevOp, firstAdds>>
    /\ UNCHANGED byReference

\* --------------------------------------------------------- SetFieldIndex
SetFieldIndex_add(id, v) ==
    /\ kind = "Set"
    /\ History("add", id, v)
    /\ present' = SetAdd(present, id)
    /\ UNCHANGED <<kind, values, docs>>

SetFieldIndex_delete(id, v) ==
    /\ kind = "Set"
    /\ History("delete", id, v)
    /\ present' = SetDelete(present, id)
    /\ UNCHANGED <<kind, values, docs>>

SetFieldIndex_all == present

SetFieldIndex_equals(lit) == Undefined
SetFieldIndex_ascending == Undefined
SetFieldIndex_descending == Undefined

\* ------------------------------------------------------- BTreeFieldIndex
\* variant: add moves the id out of the buckets of other values
BTreeAddValues_Replaces(t, id, v) ==
    LET t1 == BTreeSetIfNotPresent(t, v, <<>>)
        t2 == [i \in DOMAIN t1 |->
                  [key |-> t1[i].key,
                   set |-> IF t1[i].key = v THEN SetAdd(t1[i].set, id)
                           ELSE SetDelete(t1[i].set, id)]]
    IN  SelectSeq(t2, LAMBDA e : Len(e.set) > 0)

\* variant: values.set instead of setIfNotPresent, the bucket starts afresh
BTreeAddValues_FreshBucket(t, id, v) ==
    IF BTreeHas(t, v) THEN BTreeMutate(t, v, <<id>>)
    ELSE BTreeSetIfNotPresent(t, v, <<id>>)

\* variant: the id is stored only when the bucket is created
BTreeAddValues_OnlyNewBucket(t, id, v) == BTreeSetIfNotPresent(t, v, <<id>>)

BTreeAddValues(t, id, v) ==
    LET t1 == BTreeSetIfNotPresent(t, v, <<>>)
    IN  BTreeMutate(t1, v, SetAdd(BTreeGet(t1, v, <<>>), id))

\* variant: add stores the id in the bucket only
BTreeFieldIndex_add_SkipsPresent(id, v) ==
    /\ kind = "BTree"
    /\ History("add", id, v)
    /\ values' = BTreeAddValues(values, id, v)
    /\ UNCHANGED <<kind, present, docs>>

BTreeFieldIndex_add(id, v) ==
    /\ kind = "BTree"
    /\ History("add", id, v)
    /\ present' = SetAdd(present, id)
    /\ values' = BTreeAddValues(values, id, v)
    /\ UNCHANGED <<kind, docs>>

\* variant: the key is removed whatever the bucket still holds
BTreeDeleteValues_DropsBucket(t, id, v) == BTreeDelete(t, v)

\* variant: an emptied bucket stays in the tree
BTreeDeleteValues_KeepsEmpty(t, id, v) ==
    BTreeMutate(t, v, SetDelete(BTreeGet(t, v, <<>>), id))

BTreeDeleteValues(t, id, v) ==
    IF ~BTreeHas(t, v) THEN BTreeDelete(t, v)
    ELSE LET set == SetDelete(BTreeGet(t, v, <<>>), id)
             t1  == BTreeMutate(t, v, set)
         IN  IF Len(set) = 0 THEN BTreeDelete(t1, v) ELSE t1

\* variant: delete leaves `present` alone
BTreeFieldIndex_delete_KeepsPresent(id, v) ==
    /\ kind = "BTree"
    /\ History("delete", id, v)
    /\ values' = BTreeDeleteValues(values, id, v)
    /\ UNCHANGED <<kind, present, docs>>

BTreeFieldIndex_delete(id, v) ==
    /\ kind = "BTree"
    /\ History("delete", id, v)
    /\ present' = SetDelete(present, id)
    /\ values' = BTreeDeleteValues(values, id, v)
    /\ UNCHANGED <<kind, docs>>

BTreeFieldIndex_all == present

\* variant: the lookup is made without the default value
BTreeFieldIndex_equals_NoDefault(v) ==
    IF BTreeHas(values, v) THEN Defined(BTreeGet(values, v, <<>>)) ELSE Undefined

BTreeFieldIndex_equals(v) == Defined(BTreeGet(values, v, EMPTY_SET))

\* [...sortedValuesIter].flatMap((set) => [...set])
RECURSIVE FlatMap(_)
FlatMap(entries) ==
    IF entries = <<>> THEN <<>>
    ELSE entries[1].set \o FlatMap(Tail(entries))

treeValuesIter(entries) == entries

BTreeFieldIndex_ascending ==
    Defined(NewSet(FlatMap(treeValuesIter(BTreeEntries(values)))))

BTreeFieldIndex_descending ==
    Defined(NewSet(FlatMap(treeValuesIter(BTreeEntriesReversed(values)))))

\* ------------------------------------------- dispatch on the FieldIndex
FieldIndex_equals(lit) ==
    CASE kind = "Everything" -> EverythingFieldIndex_equals(lit)
      [] kind = "Id"         -> IdFieldIndex_equals(lit)
      [] kind = "Set"        -> SetFieldIndex_equals(lit)
      [] kind = "BTree"      -> IF IsString(lit) THEN Defined(EMPTY_SET)
                                ELSE BTreeFieldIndex_equals(lit[2])

FieldIndex_ascending ==
    CASE kind = "Everything" -> EverythingFieldIndex_ascending
      [] kind = "Id"         -> IdFieldIndex_ascending
      [] kind = "Set"        -> SetFieldIndex_ascending
      [] kind = "BTree"      -> BTreeFieldIndex_ascending

FieldIndex_descending ==
    CASE kind = "Everything" -> EverythingFieldIndex_descending
      [] kind = "Id"         -> IdFieldIndex_descending
      [] kind = "Set"        -> SetFieldIndex_descending
      [] kind = "BTree"      -> BTreeFieldIndex_descending

\* ------------------------------------------------------------------ Next
Next ==
    \/ \E id \in Ids, v \in Values : EverythingFieldIndex_add(id, v)
    \/ \E id \in Ids, v \in Values : EverythingFieldIndex_delete(id, v)
    \/ \E id \in Ids, v \in Values : IdFieldIndex_add(id, v)
    \/ \E id \in Ids, v \in Values : IdFieldIndex_delete(id, v)
    \/ \E id \in Ids : RegistryAdd(id)
    \/ \E id \in Ids : RegistryRemove(id)
    \/ \E id \in Ids, v \in Values : SetFieldIndex_add(id, v)
    \/ \E id \in Ids, v \in Values : SetFieldIndex_delete(id, v)
    \/ \E id \in Ids, v \in Values : BTreeFieldIndex_add(id, v)
    \/ \E id \in Ids, v \in Values : BTreeFieldIndex_delete(id, v)

Spec == Init /\ [][Next]_vars

TypeOK ==
    /\ kind \in Kinds
    /\ docs \subseteq Ids
    /\ nCalls \in 0..MaxCalls
    /\ SetOf(present) \subseteq Ids
    /\ Keys(values) \subseteq Values

\* ===================================================================
\* The Ordered Value Index with its Set objects held by reference:
\* `values` maps a key to the reference of its bucket, `heap` holds the
\* elements of every Set object that is still referenced.
\* ===================================================================
history == <<addCount, delCount, lastAdd, lastPair, protocolOK,
             lastCall, prevOp, firstAdds>>

\* the static BTreeFieldIndex.EMPTY_SET object
EMPTY_SET_Ref == -1

Elems(h, r) == IF r \in Refs THEN h[r].elems ELSE <<>>

\* new Set(): the lowest reference not in use
Alloc(h) == CHOOSE r \in Refs : ~h[r].used /\ \A q \in Refs : ~h[q].used => r <= q

Cur == [present |-> present, values |-> values, heap |-> heap]

\* this.present.add(id)
AddPresent(S, id) == [S EXCEPT !.present = SetAdd(@, id)]

\* variant: the bucket is never created
AddCreate_Skipped(S, v) == S

\* this.values.setIfNotPresent(value, new Set())
AddCreate(S, v) ==
    IF BTreeHas(S.values, v) THEN S
    ELSE LET r == Alloc(S.heap)
         IN  [S EXCEPT !.values = BTreeSetIfNotPresent(@, v, r),
                       !.heap[r] = [used |-> TRUE, elems |-> <<>>]]

\* this.values.get(value)!.add(id): a TypeError when get returns undefined
AddThrows(S, v) == BTreeGet(S.values, v, Null) = Null

AddInsert(S, id, v) ==
    LET r == BTreeGet(S.values, v, Null)
    IN  IF r = Null THEN S
        ELSE [S EXCEPT !.heap[r].elems = SetAdd(@, id)]

\* this.present.delete(id)
DeletePresent(S, id) == [S EXCEPT !.present = SetDelete(@, id)]

\* const set = this.values.get(value); set?.delete(id)
DeleteFetch(S, id, v) ==
    LET r == BTreeGet(S.values, v, Null)
    IN  IF r = Null THEN S
        ELSE [S EXCEPT !.heap[r].elems = SetDelete(@, id)]

\* if (set == null || set.size == 0) this.values.delete(value)
DeleteCleanup(S, set, v) ==
    IF set = Null \/ Len(Elems(S.heap, set)) = 0
    THEN [S EXCEPT !.values = BTreeDelete(@, v)]
    ELSE S

\* the Set objects nothing refers to any more are dropped
Collect(h, t, vw, ws) ==
    LET live == {t[i].set : i \in DOMAIN t} \cup {vw.ref} \cup {ws[w].set : w \in Writers}
    IN  [r \in Refs |-> IF r \in live THEN h[r] ELSE Unused]

Commit(S, vw, ws, n) ==
    /\ nCalls + n <= MaxCalls
    /\ nCalls' = nCalls + n
    /\ present' = S.present
    /\ values' = S.values
    /\ view' = [vw EXCEPT !.kept = @ /\ BTreeHas(S.values, vw.value)]
    /\ writers' = ws
    /\ heap' = Collect(S.heap, S.values, vw, ws)
    /\ UNCHANGED <<kind, docs, serialized>>
    /\ UNCHANGED history

InitRef ==
    /\ kind = "BTree"
    /\ present = <<>>
    /\ values = <<>>
    /\ docs = {}
    /\ nCalls = 0
    /\ addCount = [id \in Ids |-> 0]
    /\ delCount = [id \in Ids |-> 0]
    /\ lastAdd = [id \in Ids |-> 0]
    /\ lastPair = [id \in Ids |-> [v \in Values |-> "none"]]
    /\ protocolOK = TRUE
    /\ lastCall = <<>>
    /\ prevOp = "none"
    /\ firstAdds = [v \in Values |-> <<>>]
    /\ heap = [r \in Refs |-> Unused]
    /\ view = NoView
    /\ writers = [w \in Writers |-> Idle]
    /\ serialized \in BOOLEAN

\* ---- every call runs as one step
Atomic_add(id, v) ==
    /\ serialized
    /\ Commit(AddInsert(AddCreate(AddPresent(Cur, id), v), id, v), view, writers, 1)

Atomic_delete(id, v) ==
    /\ serialized
    /\ LET S1  == DeletePresent(Cur, id)
           set == BTreeGet(S1.values, v, Null)
           S2  == DeleteFetch(S1, id, v)
       IN  Commit(DeleteCleanup(S2, set, v), view, writers, 1)

\* variant: equals hands out a copy of the bucket
Caller_equals_Copies(v) ==
    /\ serialized
    /\ LET r == Alloc(heap)
           S == [Cur EXCEPT !.heap[r] =
                    [used |-> TRUE, elems |-> Elems(heap, BTreeGet(values, v, EMPTY_SET_Ref))]]
       IN  Commit(S, [ref |-> r, value |-> v, kept |-> TRUE, seen |-> S.heap[r].elems],
                  writers, 1)

\* a caller keeps what equals(value) returned
Caller_equals(v) ==
    /\ serialized
    /\ LET r == BTreeGet(values, v, EMPTY_SET_Ref)
       IN  Commit(Cur, [ref |-> r, value |-> v, kept |-> TRUE, seen |-> Elems(heap, r)],
                  writers, 1)

\* ---- two writers, each indexing its own document, interleave by step
DocOf == <<"p1", "p2">>

At(w, pc) == ~serialized /\ writers[w].pc = pc

Goto(w, pc) == [writers EXCEPT ![w].pc = pc]

Writer_add_present(w, v) ==
    /\ At(w, "idle")
    /\ Commit(AddPresent(Cur, DocOf[w]), view,
              [writers EXCEPT ![w] = [pc |-> "add_create", id |-> DocOf[w],
                                      value |-> v, set |-> Null]], 1)

Writer_add_create(w) ==
    /\ At(w, "add_create")
    /\ Commit(AddCreate(Cur, writers[w].value), view, Goto(w, "add_insert"), 0)

Writer_add_insert(w) ==
    /\ At(w, "add_insert")
    /\ Commit(AddInsert(Cur, writers[w].id, writers[w].value), view,
              IF AddThrows(Cur, writers[w].value)
              THEN Goto(w, "threw")
              ELSE [writers EXCEPT ![w] = Idle], 0)

Writer_delete_present(w, v) ==
    /\ At(w, "idle")
    /\ Commit(DeletePresent(Cur, DocOf[w]), view,
              [writers EXCEPT ![w] = [pc |-> "delete_fetch", id |-> DocOf[w],
                                      value |-> v, set |-> Null]], 1)

Writer_delete_fetch(w) ==
    /\ At(w, "delete_fetch")
    /\ Commit(DeleteFetch(Cur, writers[w].id, writers[w].value), view,
              [writers EXCEPT ![w].pc = "delete_cleanup",
                              ![w].set = BTreeGet(values, writers[w].value, Null)], 0)

Writer_delete_cleanup(w) ==
    /\ At(w, "delete_cleanup")
    /\ Commit(DeleteCleanup(Cur, writers[w].set, writers[w].value), view,
              [writers EXCEPT ![w] = Idle], 0)

NextRef ==
    \/ \E id \in Ids, v \in Values : Atomic_add(id, v)
    \/ \E id \in Ids, v \in Values : Atomic_delete(id, v)
    \/ \E v \in Values : Caller_equals(v)
    \/ \E w \in Writers, v \in Values : Writer_add_present(w, v)
    \/ \E w \in Writers : Writer_add_create(w)
    \/ \E w \in Writers : Writer_add_insert(w)
    \/ \E w \in Writers, v \in Values : Writer_delete_present(w, v)
    \/ \E w \in Writers : Writer_delete_fetch(w)
    \/ \E w \in Writers : Writer_delete_cleanup(w)

SpecRef == InitRef /\ [][NextRef]_vars


\* ===================================================================
\* The index with its query operations as calls of their own
\* ===================================================================
QueryOps == {"all", "equals", "ascending", "descending"}

\* a query call: nothing of the index is assigned
Queried(op, v) ==
    /\ nCalls < MaxCalls
    /\ nCalls' = nCalls + 1
    /\ lastCall' = <<op, "", v>>
    /\ prevOp' = "none"
    /\ UNCHANGED <<addCount, delCount, lastAdd, lastPair, protocolOK, firstAdds>>
    /\ UNCHANGED byReference

FieldIndex_call_all ==
    /\ Queried("all", 0)
    /\ UNCHANGED <<kind, present, values, docs>>

\* variant: the lookup creates the bucket it does not find
FieldIndex_call_equals_CreatesBucket(v) ==
    /\ Queried("equals", v)
    /\ values' = IF kind = "BTree" THEN BTreeSetIfNotPresent(values, v, <<>>) ELSE values
    /\ UNCHANGED <<kind, present, docs>>

FieldIndex_call_equals(v) ==
    /\ Queried("equals", v)
    /\ UNCHANGED <<kind, present, values, docs>>

FieldIndex_call_ascending ==
    /\ Queried("ascending", 0)
    /\ UNCHANGED <<kind, present, values, docs>>

FieldIndex_call_descending ==
    /\ Queried("descending", 0)
    /\ UNCHANGED <<kind, present, values, docs>>

NextQuery ==
    \/ Next
    \/ FieldIndex_call_all
    \/ \E v \in Values : FieldIndex_call_equals(v)
    \/ FieldIndex_call_ascending
    \/ FieldIndex_call_descending

SpecQuery == Init /\ [][NextQuery]_vars


\* ===================================================================
\* Properties
\* ===================================================================
Tracking == kind \in {"Set", "BTree"}
IsBTree == kind = "BTree"

\* keys of the buckets that hold id
BucketsOf(id) == {k \in Keys(values) : SetHas(BTreeGet(values, k, <<>>), id)}

InBuckets == UNION {SetOf(values[i].set) : i \in DOMAIN values}

NoDuplicates(s) == \A i, j \in DOMAIN s : s[i] = s[j] => i = j

Min(S) == CHOOSE x \in S : \A y \in S : x <= y
Max(S) == CHOOSE x \in S : \A y \in S : x >= y

Ascending == BTreeFieldIndex_ascending.set
Descending == BTreeFieldIndex_descending.set

\* ----------------------------------------------------------------- C1
\* C1 (as stated): on the Presence Index and the Ordered Value Index,
\* all() is the set of ids with more add calls than delete calls.
C1_AllIsNetAddCount ==
    Tracking => SetOf(present) = {id \in Ids : addCount[id] > delCount[id]}

\* C1 (amended): all() is the set of ids whose latest call, under any
\* value, was an add; repeated adds and deletes do not accumulate.
C1_AllIsLatestCallAdd ==
    Tracking => SetOf(present) = {id \in Ids : lastAdd[id] # 0}

C1_Witness ==
    /\ Tracking
    /\ \E id \in Ids : addCount[id] = 2 /\ delCount[id] = 1 /\ ~SetHas(present, id)
    /\ \E id \in Ids : addCount[id] = 1 /\ SetHas(present, id)

\* ----------------------------------------------------------------- C2
\* C2 (as stated): in the Ordered Value Index an id is in `present` if
\* and only if it is a member of exactly one bucket.
C2_PresentIffExactlyOneBucket ==
    IsBTree => \A id \in Ids :
        SetHas(present, id) <=> Cardinality(BucketsOf(id)) = 1

\* C2 (amended): an id in `present` is a member of at least one bucket
\* (it may be in several, and an id outside `present` may still be in a
\* bucket); the equivalence with "exactly one bucket" holds as long as
\* the caller has followed the lifecycle protocol.
C2_PresentHasABucket ==
    IsBTree =>
        /\ \A id \in Ids : SetHas(present, id) => Cardinality(BucketsOf(id)) >= 1
        /\ protocolOK => \A id \in Ids :
               SetHas(present, id) <=> Cardinality(BucketsOf(id)) = 1

C2_Witness ==
    /\ IsBTree
    /\ \E id \in Ids : SetHas(present, id) /\ Cardinality(BucketsOf(id)) = 2
    /\ \E id \in Ids : ~SetHas(present, id) /\ Cardinality(BucketsOf(id)) = 1

\* ----------------------------------------------------------------- C3
\* C3: on the Ordered Value Index, delete(id, value) of a pair that is
\* not recorded leaves `present` and `values` as they were.
C3_DeleteUnrecordedIsNoOp ==
    [][\A id \in Ids, v \in Values :
          (BTreeFieldIndex_delete(id, v) /\ ~Recorded(id, v))
              => (present' = present /\ values' = values)]_vars

SortedBy(s, f) == \A i, j \in DOMAIN s : i < j => f[s[i]] <= f[s[j]]
LatestValue == [id \in Ids |-> lastAdd[id]]
NegLatestValue == [id \in Ids |-> 0 - lastAdd[id]]
LowestBucket == [id \in InBuckets |-> Min(BucketsOf(id))]
NegHighestBucket == [id \in InBuckets |-> 0 - Max(BucketsOf(id))]

\* C5 (as stated): ascending() and descending() yield exactly the ids of
\* `present`, once each, ordered by the value each id is recorded under.
C5_TraversalIsPresentInValueOrder ==
    IsBTree =>
        /\ SetOf(Ascending) = SetOf(present) /\ SetOf(Descending) = SetOf(present)
        /\ NoDuplicates(Ascending) /\ NoDuplicates(Descending)
        /\ SortedBy(Ascending, LatestValue)
        /\ SortedBy(Descending, NegLatestValue)

\* C5 (amended): ascending() and descending() yield exactly the ids that
\* are members of some bucket, once each: every id of `present` and
\* possibly ids no longer in `present`; ascending() is ordered by the
\* lowest and descending() by the highest value an id is held under.
\* While the caller follows the lifecycle protocol these are the ids of
\* `present` ordered by their recorded value.
C5_TraversalIsBucketsInValueOrder ==
    IsBTree =>
        LET asc  == Ascending
            desc == Descending
            held == InBuckets
        IN  /\ SetOf(asc) = held /\ SetOf(desc) = held
            /\ SetOf(present) \subseteq held
            /\ NoDuplicates(asc) /\ NoDuplicates(desc)
            /\ SortedBy(asc, LowestBucket)
            /\ SortedBy(desc, NegHighestBucket)
            /\ protocolOK =>
                  /\ SetOf(asc) = SetOf(present)
                  /\ SortedBy(asc, LatestValue)
                  /\ SortedBy(desc, NegLatestValue)

C5_Witness ==
    /\ IsBTree
    /\ \E id \in SetOf(Ascending) : ~SetHas(present, id)
    /\ \E id \in SetOf(Ascending) : Cardinality(BucketsOf(id)) = 2
    /\ Len(Ascending) >= 2

\* ----------------------------------------------------------------- C6
\* C6: on the Ordered Value Index, equals(v) is the set of ids whose
\* latest call on the pair (id, v) was add(id, v).
C6_EqualsIsLatestAddedPairs ==
    IsBTree => \A v \in Values :
        /\ BTreeFieldIndex_equals(v).defined
        /\ SetOf(BTreeFieldIndex_equals(v).set) = {id \in Ids : Recorded(id, v)}
        /\ NoDuplicates(BTreeFieldIndex_equals(v).set)

C6_Witness ==
    /\ IsBTree
    /\ \E v \in Values, a, b \in Ids :
          /\ lastPair[a][v] = "delete"
          /\ Recorded(b, v) /\ ~SetHas(present, b)
          /\ BTreeFieldIndex_equals(v).set = <<b>>

\* ----------------------------------------------------------------- C7
\* C7 (as stated): every id in `present` is a member of exactly one
\* bucket, keyed by the value of its latest add.
C7_PresentInBucketOfLatestAddOnly ==
    IsBTree => \A id \in SetOf(present) : BucketsOf(id) = {lastAdd[id]}

\* C7 (amended): every id in `present` is a member of the bucket keyed by
\* the value of its latest add; it can be a member of further buckets,
\* those of earlier adds that were not deleted under their own value,
\* and is in that bucket only while the caller follows the protocol.
C7_PresentInBucketOfLatestAdd ==
    IsBTree => \A id \in SetOf(present) :
        /\ lastAdd[id] \in BucketsOf(id)
        /\ BucketsOf(id) = RecordedValues(id)
        /\ protocolOK => BucketsOf(id) = {lastAdd[id]}

C7_Witness ==
    /\ IsBTree
    /\ \E id \in SetOf(present) : lastAdd[id] = 1 /\ BucketsOf(id) = {1, 2}
    /\ \E id \in SetOf(present) : BucketsOf(id) = {lastAdd[id]}

\* ----------------------------------------------------------------- C8
\* C8: no bucket of the Ordered Value Index is empty; once delete removes
\* the last id held under v, the key v is gone from the sorted map,
\* equals(v) is empty and the traversals visit no bucket for v.
C8_NoEmptyBucket ==
    IsBTree =>
        /\ \A i \in DOMAIN values : Len(values[i].set) > 0
        /\ \A v \in Values :
              (BTreeFieldIndex_equals(v).set = <<>>) <=> (v \notin Keys(values))
        /\ \A id \in Ids, v \in Values :
              (lastCall = <<"delete", id, v>> /\ RecordedValues(id) = {}
                  /\ \A other \in Ids : ~Recorded(other, v))
              => /\ v \notin Keys(values)
                 /\ \A i \in DOMAIN BTreeEntries(values) :
                        BTreeEntries(values)[i].key # v
                 /\ \A i \in DOMAIN BTreeEntriesReversed(values) :
                        BTreeEntriesReversed(values)[i].key # v
                 /\ ~SetHas(Ascending, id) /\ ~SetHas(Descending, id)

C8_Witness ==
    /\ IsBTree
    /\ \E id \in Ids, v \in Values :
          /\ lastCall = <<"delete", id, v>>
          /\ prevOp = "add"
          /\ nCalls > 2
          /\ v \notin Keys(values)
          /\ BTreeFieldIndex_equals(v).set = <<>>
          /\ Keys(values) # {}

\* ----------------------------------------------------------------- C9
AddThenDelete(id, v) == lastCall = <<"delete", id, v>> /\ prevOp = "add"

\* C9 (as stated): after add(id, v) immediately followed by
\* delete(id, v), equals(v) is empty and all() does not contain id.
C9_RoundTripEmptiesEquals ==
    IsBTree => \A id \in Ids, v \in Values :
        AddThenDelete(id, v) =>
            /\ BTreeFieldIndex_equals(v).set = <<>>
            /\ ~SetHas(BTreeFieldIndex_all, id)

\* C9 (amended): after add(id, v) immediately followed by delete(id, v),
\* equals(v) does not contain id and all() does not contain id;
\* equals(v) still holds the other ids recorded under v and is empty
\* only when there is none.
C9_RoundTripRemovesId ==
    IsBTree => \A id \in Ids, v \in Values :
        AddThenDelete(id, v) =>
            /\ BTreeFieldIndex_equals(v).defined
            /\ ~SetHas(BTreeFieldIndex_equals(v).set, id)
            /\ ~SetHas(BTreeFieldIndex_all, id)
            /\ SetOf(BTreeFieldIndex_equals(v).set)
                   = {other \in Ids \ {id} : Recorded(other, v)}

C9_Witness ==
    /\ IsBTree
    /\ \E id \in Ids, v \in Values :
          /\ AddThenDelete(id, v)
          /\ BTreeFieldIndex_equals(v).set # <<>>

\* ---------------------------------------------------------------- C10
Literals == StringLiterals \cup NumberLiterals

\* C10: for a given argument, whether equals (and ascending, descending)
\* answers "unsupported" (undefined) or a set never changes over the life
\* of the instance, whatever happens to the index or to the registry.
C10_CapabilityIsFixed ==
    [][/\ \A lit \in Literals :
             FieldIndex_equals(lit).defined' = FieldIndex_equals(lit).defined
       /\ FieldIndex_ascending.defined' = FieldIndex_ascending.defined
       /\ FieldIndex_descending.defined' = FieldIndex_descending.defined]_vars

\* ---------------------------------------------------------------- C11
\* C11: Identity Index equals(v) is "unsupported" for a non-string v, the
\* singleton {v} for a string v that lookup accepts, and an empty result
\* that is not "unsupported" for a string v that lookup rejects.
C11_IdEqualsTellsEmptyFromUnsupported ==
    kind = "Id" =>
        /\ \A lit \in NumberLiterals : IdFieldIndex_equals(lit) = Undefined
        /\ \A lit \in StringLiterals :
              IF lookup(lit[2])
              THEN IdFieldIndex_equals(lit) = Defined(<<lit[2]>>)
              ELSE IdFieldIndex_equals(lit) = Defined(<<>>)

\* ---------------------------------------------------------------- C12
\* C12: Ordered Value Index equals(v) is never "unsupported": it is the
\* empty set for a value with no bucket (never indexed, or every id
\* deleted again) and the non-empty bucket otherwise.
C12_BTreeEqualsAlwaysSupported ==
    IsBTree => \A v \in Values :
        LET result == BTreeFieldIndex_equals(v)
        IN  /\ result.defined
            /\ (\A id \in Ids : ~Recorded(id, v)) =>
                   (result.set = <<>> /\ v \notin Keys(values))
            /\ (\E id \in Ids : Recorded(id, v)) =>
                   (result.set # <<>> /\ v \in Keys(values)
                       /\ \E i \in DOMAIN values :
                             values[i].key = v /\ values[i].set = result.set)

C12_Witness ==
    /\ IsBTree
    /\ \E w, u \in Values :
          /\ \E id \in Ids : lastPair[id][w] = "delete" /\ addCount[id] > 0
          /\ BTreeFieldIndex_equals(w) = Defined(<<>>)
          /\ Len(BTreeFieldIndex_equals(u).set) > 0

\* ---------------------------------------------------------------- C13
\* C13: on the Everything Index an add or delete call leaves all() as it
\* was, so all() is what the enumeration closure returns, and equals,
\* ascending and descending answer "unsupported" for every argument.
C13_EverythingIgnoresCalls ==
    [][kind = "Everything" =>
          /\ (nCalls' # nCalls) => (EverythingFieldIndex_all' = EverythingFieldIndex_all)
          /\ \A lit \in Literals : EverythingFieldIndex_equals(lit)' = Undefined
          /\ EverythingFieldIndex_ascending' = Undefined
          /\ EverythingFieldIndex_descending' = Undefined]_vars

C13_Witness ==
    /\ kind = "Everything"
    /\ EverythingFieldIndex_all = {"p1", "p2"}
    /\ lastCall # <<>>
    /\ lastCall[1] = "add" /\ lastCall[2] = "p3"
    /\ nCalls >= 2

\* ---------------------------------------------------------------- C14
\* C14: on the Presence Index and the Ordered Value Index, a delete(id,
\* value) that directly follows the same delete(id, value) changes
\* neither `present` nor `values`.
C14_DeleteTwiceIsDeleteOnce ==
    [][\A id \in Ids, v \in Values :
          (lastCall = <<"delete", id, v>>
              /\ (SetFieldIndex_delete(id, v) \/ BTreeFieldIndex_delete(id, v)))
          => (present' = present /\ values' = values)]_vars

C14_Witness ==
    /\ IsBTree
    /\ lastCall # <<>>
    /\ lastCall[1] = "delete" /\ prevOp = "delete"
    /\ lastCall[3] \in Keys(values)
    /\ Recorded(lastCall[2], 1) \/ Recorded(lastCall[2], 2)
    /\ present # <<>>

\* ---------------------------------------------------------------- C15
\* C15: on the Presence Index and the Ordered Value Index, an add(id,
\* value) that directly follows the same add(id, value) changes nothing:
\* id is once in `present` and once in the bucket for value, at the place
\* it had, and no bucket is created.
C15_AddTwiceIsAddOnce ==
    [][\A id \in Ids, v \in Values :
          (lastCall = <<"add", id, v>>
              /\ (SetFieldIndex_add(id, v) \/ BTreeFieldIndex_add(id, v)))
          => /\ present' = present /\ values' = values
             /\ NoDuplicates(present')
             /\ \A i \in DOMAIN values' : NoDuplicates(values'[i].set)
             /\ Cardinality({i \in DOMAIN values' : values'[i].key = v})
                    = IF IsBTree THEN 1 ELSE 0]_vars

C15_Witness ==
    /\ IsBTree
    /\ lastCall # <<>>
    /\ lastCall[1] = "add" /\ prevOp = "add"
    /\ \E i \in DOMAIN values :
          /\ values[i].key = lastCall[3]
          /\ Len(values[i].set) = 2
          /\ values[i].set[1] = lastCall[2]
    /\ Len(present) = 2 /\ present[1] = lastCall[2]

\* ---------------------------------------------------------------- C16
\* C16: Identity Index ascending() and descending() hold every id of the
\* current all() once, in ascending and in descending id order, so that
\* descending() is the reverse of ascending(), whatever add and delete
\* calls were made on the index.
C16_IdTraversalsSortAll ==
    kind = "Id" =>
        LET asc  == IdFieldIndex_ascending
            desc == IdFieldIndex_descending
        IN  /\ asc.defined /\ desc.defined
            /\ SetOf(asc.set) = IdFieldIndex_all /\ SetOf(desc.set) = IdFieldIndex_all
            /\ NoDuplicates(asc.set) /\ NoDuplicates(desc.set)
            /\ \A i, j \in DOMAIN asc.set :
                  i < j => IdRank[asc.set[i]] < IdRank[asc.set[j]]
            /\ \A i, j \in DOMAIN desc.set :
                  i < j => IdRank[desc.set[i]] > IdRank[desc.set[j]]
            /\ desc.set = Reverse(asc.set)

C16_Witness ==
    /\ kind = "Id"
    /\ Cardinality(IdFieldIndex_all) >= 2
    /\ lastCall # <<>>
    /\ lastCall[1] = "delete" /\ lastCall[2] \in IdFieldIndex_all
    /\ Len(IdFieldIndex_descending.set) >= 2

\* ---------------------------------------------------------------- C17
Bucket(t, v) == IF BTreeHas(t, v) THEN Defined(BTreeGet(t, v, <<>>)) ELSE Undefined

OthersUntouched(id, v) ==
    /\ \A w \in Values \ {v} : Bucket(values', w) = Bucket(values, w)
    /\ SetDelete(BTreeGet(values', v, <<>>), id) = SetDelete(BTreeGet(values, v, <<>>), id)
    /\ SetDelete(present', id) = SetDelete(present, id)

\* C17: the Ordered Value Index replaces nothing: add(id, v2) leaves the
\* bucket of every other value as it was, so an id held under v1 is then
\* in both buckets; delete(id, v) changes only id's membership in
\* `present` and in the bucket for v.
C17_NoImplicitReplacement ==
    [][\A id \in Ids, v \in Values :
          /\ BTreeFieldIndex_add(id, v) =>
                /\ OthersUntouched(id, v)
                /\ \A w \in Values :
                      SetHas(BTreeGet(values, w, <<>>), id)
                          => SetHas(BTreeGet(values', w, <<>>), id)
                /\ SetHas(BTreeGet(values', v, <<>>), id)
          /\ BTreeFieldIndex_delete(id, v) =>
                /\ OthersUntouched(id, v)
                /\ ~SetHas(BTreeGet(values', v, <<>>), id)
                /\ ~SetHas(present', id)]_vars

C17_Witness ==
    /\ IsBTree
    /\ lastCall # <<>>
    /\ lastCall[1] = "add"
    /\ BucketsOf(lastCall[2]) = {1, 2}
    /\ lastAdd[lastCall[2]] = 2
    /\ \E other \in Ids \ {lastCall[2]} : SetHas(present, other)

\* ---------------------------------------------------------------- C19
Restrict(s, S) == SelectSeq(s, LAMBDA e : e \in S)

ExampleCalls ==
    /\ IsBTree /\ nCalls = 3
    /\ Recorded("p1", 2) /\ Recorded("p2", 1) /\ Recorded("p3", 2)
    /\ firstAdds[2] = <<"p1", "p3">>

\* C19 (as stated): ascending() and descending() list the ids of one
\* bucket in the order of their first add into that bucket since their
\* last delete from it; add(p1,5), add(p2,3), add(p3,5) gives
\* ascending() = [p2, p1, p3] and equals(5) = {p1, p3}.
C19_BucketIdsInInsertionOrder ==
    IsBTree =>
        LET asc  == Ascending
            desc == Descending
        IN  /\ \A v \in Values :
                  /\ Restrict(asc, SetOf(firstAdds[v])) = firstAdds[v]
                  /\ Restrict(desc, SetOf(firstAdds[v])) = firstAdds[v]
            /\ ExampleCalls =>
                  /\ asc = <<"p2", "p1", "p3">>
                  /\ BTreeFieldIndex_equals(2).set = <<"p1", "p3">>

\* C19 (amended): every bucket holds its ids in the order of their first
\* add into it since their last delete from it, and ascending() (resp.
\* descending()) lists in that order the ids of the bucket that are in
\* no bucket of a lower (resp. higher) value; an id held under several
\* values is listed with the first of its buckets that is visited. The
\* example holds as stated.
C19_BucketIdsInInsertionOrderOnce ==
    IsBTree =>
        LET asc  == Ascending
            desc == Descending
            low  == [v \in Values |-> {id \in InBuckets : Min(BucketsOf(id)) = v}]
            high == [v \in Values |-> {id \in InBuckets : Max(BucketsOf(id)) = v}]
        IN  /\ \A v \in Values :
                  /\ BTreeFieldIndex_equals(v).set = firstAdds[v]
                  /\ Restrict(asc, low[v]) = Restrict(firstAdds[v], low[v])
                  /\ Restrict(desc, high[v]) = Restrict(firstAdds[v], high[v])
            /\ ExampleCalls =>
                  /\ asc = <<"p2", "p1", "p3">>
                  /\ desc = <<"p1", "p3", "p2">>
                  /\ BTreeFieldIndex_equals(2).set = <<"p1", "p3">>

C19_Witness ==
    /\ ExampleCalls
    /\ lastCall = <<"add", "p3", 2>>
    /\ Ascending = <<"p2", "p1", "p3">>

\* -------------------------------------------------------------------
\* the set a caller kept from equals(value), against a fresh equals(value)
ViewTaken == serialized /\ view.ref # Null

ViewElems == Elems(heap, view.ref)

FreshElems == Elems(heap, BTreeGet(values, view.value, EMPTY_SET_Ref))

\* C18 (as stated): after any later add/delete calls the set kept from
\* equals(v) has the contents a fresh equals(v) returns, also when the
\* bucket of v was absent at the call or was removed and created again.
C18_KeptSetIsLiveView ==
    ViewTaken => ViewElems = FreshElems

\* C18 (amended): the set kept from equals(v) has the contents a fresh
\* equals(v) returns as long as the bucket of v existed at the call and has
\* not been removed since; otherwise the kept set is and stays empty.
C18_KeptSetIsLiveWhileBucketStays ==
    ViewTaken => IF view.kept THEN ViewElems = FreshElems ELSE ViewElems = <<>>

C18_Witness ==
    /\ ViewTaken
    /\ view.kept
    /\ ViewElems # view.seen
    /\ Len(ViewElems) > 0
    /\ ViewElems = FreshElems

\* -------------------------------------------------------------------
InSomeBucket(id) ==
    \E i \in DOMAIN values : SetHas(Elems(heap, values[i].set), id)

\* C20: when every add/delete runs as one atomic step, no id is ever in
\* `present` without being in a bucket, and after add(id, v) the id is in
\* all() and in equals(v); with two writers interleaving by step the state
\* "id in present but in no bucket" is reached (C20_Witness).
C20_AtomicCallsKeepPresentInBuckets ==
    [][ /\ serialized' => \A id \in SetOf(present') : InSomeBucket(id)'
        /\ \A id \in Ids, v \in Values :
              Atomic_add(id, v) =>
                 /\ SetHas(present', id)
                 /\ SetHas(Elems(heap', BTreeGet(values', v, EMPTY_SET_Ref)), id) ]_vars

C20_Witness ==
    /\ ~serialized
    /\ \E w \in Writers :
          /\ writers[w].pc = "threw"
          /\ SetHas(present, writers[w].id)
          /\ ~InSomeBucket(writers[w].id)
          /\ ~BTreeHas(values, writers[w].value)
          /\ \A u \in Writers \ {w} : writers[u].pc = "idle"

\* ---------------------------------------------------------------- C21
\* C21: while the caller follows the lifecycle protocol on the Ordered
\* Value Index (add only for an id recorded under no value, delete only
\* of the pair that is recorded), `present` is the union of the buckets,
\* the buckets are pairwise disjoint, none is empty, and ascending() lists
\* the ids of `present` once each, in non-decreasing order of their value.
C21_ProtocolKeepsIndexConsistent ==
    (IsBTree /\ protocolOK) =>
        LET asc == Ascending
        IN  /\ SetOf(present) = InBuckets
            /\ \A i, j \in DOMAIN values :
                  i # j => SetOf(values[i].set) \cap SetOf(values[j].set) = {}
            /\ \A i \in DOMAIN values : values[i].set # <<>>
            /\ NoDuplicates(asc)
            /\ SetOf(asc) = SetOf(present)
            /\ Len(asc) = Len(present)
            /\ \A i, j \in DOMAIN asc :
                  i < j => Min(BucketsOf(asc[i])) <= Max(BucketsOf(asc[j]))

C21_Witness ==
    /\ IsBTree
    /\ protocolOK
    /\ \E id \in Ids : delCount[id] > 0 /\ SetHas(present, id)
    /\ Len(values) >= 2
    /\ Len(Ascending) >= 2
    /\ Ascending # present

\* ---------------------------------------------------------------- C22
\* C22: after any sequence of add/delete calls on the Ordered Value Index,
\* whether or not it follows the protocol, every id of all() is in at
\* least one bucket and so in ascending() and in descending(); the two
\* traversals yield the same set of ids and repeat none.
C22_AllIsWithinTraversals ==
    IsBTree =>
        LET asc  == Ascending
            desc == Descending
            all  == SetOf(BTreeFieldIndex_all)
        IN  /\ \A id \in all : BucketsOf(id) # {}
            /\ all \subseteq SetOf(asc)
            /\ all \subseteq SetOf(desc)
            /\ SetOf(asc) = SetOf(desc)
            /\ Len(asc) = Cardinality(SetOf(asc))
            /\ Len(desc) = Cardinality(SetOf(desc))

C22_Witness ==
    /\ IsBTree
    /\ ~protocolOK
    /\ \E id \in SetOf(BTreeFieldIndex_all) : Cardinality(BucketsOf(id)) = 2
    /\ SetOf(BTreeFieldIndex_all) # SetOf(Ascending)
    /\ SetOf(BTreeFieldIndex_all) # {}

\* ---------------------------------------------------------------- C23
\* C23: a call of all(), equals(v), ascending() or descending(), on any
\* index type, leaves the index as it was: `present`, the bucket keys and
\* every bucket's ids and their order are the same after the call as
\* before it, and equals(v) of an absent v creates no bucket for v.
C23_QueriesLeaveIndexUnchanged ==
    [][(nCalls' # nCalls /\ lastCall'[1] \in QueryOps) =>
          /\ present' = present
          /\ Keys(values') = Keys(values)
          /\ \A v \in Values : BTreeGet(values', v, <<>>) = BTreeGet(values, v, <<>>)
          /\ docs' = docs
          /\ (lastCall'[1] = "equals" /\ ~BTreeHas(values, lastCall'[3]))
                => ~BTreeHas(values', lastCall'[3]) ]_vars

C23_Witness ==
    /\ IsBTree
    /\ Len(lastCall) = 3
    /\ lastCall[1] = "equals"
    /\ ~BTreeHas(values, lastCall[3])
    /\ FieldIndex_equals(<<"number", lastCall[3]>>) = Defined(EMPTY_SET)
    /\ Len(present) >= 2
    /\ values # <<>>

====
